---- MODULE Spec2Model ----
(***************************************************************************)
(* A model of the GitHub crawler of src/main.py: the paginator             *)
(* (execute_graphql_query), the sequential scheduler                       *)
(* (crawl_100k_repositories), the persistence calls of main and the        *)
(* upsert of Database.save_repositories_batch.                             *)
(*                                                                         *)
(* The crawler is one asyncio coroutine: crawl_100k_repositories awaits    *)
(* each execute_graphql_query before it starts the next one, so a single   *)
(* program counter (pc) describes the whole run.  The GraphQL endpoint and *)
(* PostgreSQL are the environment: what the endpoint answers to a request  *)
(* is chosen nondeterministically in Post.                                 *)
(***************************************************************************)
EXTENDS Integers, Sequences, FiniteSets, TLC

(***************************************************************************)
(* Bounds of the model.  The first four stand for numbers of the program   *)
(* that are scaled down to keep the state space finite and small:          *)
(*   PageSize     first: 100          (main.py:137)                        *)
(*   max_pages    max_pages = 10      (main.py:161)                        *)
(*   TargetCount  100000              (main.py:265, 284)                   *)
(*   batch_size   batch_size = 2000   (main.py:412)                        *)
(***************************************************************************)
PageSize == 2

max_pages == 2

TargetCount == 3

batch_size == 2

\* Entities on the server carry the ids 1..MaxId.
MaxId == 5

\* The request counter of one page (attempts) saturates at MaxTracked.
MaxTracked == 3

\* DatabaseSpec: the longest batch and the number of calls of
\* save_repositories_batch.
MaxBatch == 2

MaxCalls == 2

\* PartitionSpec: star counts 1..MaxStars are classified; the widest bounded
\* band of star_ranges ends at 99999.
MaxStars == 100001

(***************************************************************************)
(* Program constants.                                                      *)
(***************************************************************************)
\* main.py:48   if self.rate_limit_remaining < 100
RateLimitMargin == 100

\* main.py:29, 52   self.rate_limit_remaining = 5000
RateLimitDefault == 5000

\* main.py:49   wait_time = 300  (seconds)
RateLimitWait == 300

\* main.py:182   await asyncio.sleep(300)
ThrottleWait == 300

\* main.py:248   await asyncio.sleep(5)
ErrorWait == 5

VARIABLES
    pc,                   \* position of the coroutine
    \* ProductionGitHubCrawler fields (main.py:25-30)
    seen_repos,           \* set of ids
    rate_limit_remaining,
    rate_limit_reset_at,
    \* locals of crawl_100k_repositories (main.py:253-286)
    queries,              \* the shuffled query list
    query_idx,            \* 0-based index of the query of the for loop
    all_repositories,
    final_repos,
    \* locals of execute_graphql_query (main.py:159-251)
    repositories,
    cursor,
    pages_fetched,
    response,             \* the answer of the endpoint, between post and its handling
    \* the environment: what each query matches on the server
    matches,
    \* locals of main (main.py:409-416)
    save_i,
    \* PostgreSQL: the table repositories, its SERIAL sequence and the clock
    table,
    id_seq,
    now,
    \* history variables
    attempts,             \* requests sent for the current page (saturating)
    ended,                \* how the paginator run of the current query ended
    failed,               \* some paginator run ended on a failed page request
    written,              \* ids ever passed to save_repositories_batch
    latest,               \* id -> the last Repository written for it
    backoff_waits,        \* sleeps after HTTP 403 for the current page (saturating)
    wait,                 \* the sleep of the last step of the paginator
    in_flight,            \* the queries dispatched and not yet appended
    saved_batches,        \* the batches main's loop has passed to save_repositories_batch
    \* PartitionSpec: a star count and the bands of star_ranges it falls in
    stars,
    covering

vars == <<pc, seen_repos, rate_limit_remaining, rate_limit_reset_at, queries,
          query_idx, all_repositories, final_repos, repositories, cursor,
          pages_fetched, response, matches, save_i, table, id_seq, now,
          attempts, ended, failed, written, latest, backoff_waits, wait,
          in_flight, saved_batches, stars, covering>>

crawlerVars == <<seen_repos, rate_limit_remaining, rate_limit_reset_at, queries,
                 query_idx, all_repositories, final_repos, repositories, cursor,
                 pages_fetched, response, attempts, ended, failed,
                 backoff_waits, wait, in_flight>>

dbVars == <<table, id_seq, now, written, latest, saved_batches>>

\* what the run never changes: the server's data and the variables of
\* PartitionSpec
envVars == <<matches, stars, covering>>

(***************************************************************************)
(* Values.                                                                 *)
(***************************************************************************)
\* Python's None, for a cursor and for rate_limit_reset_at.  Cursors of the
\* server are offsets >= 1, so 0 is free to stand for None.
None == 0

\* A node that is null or has no "id" (main.py:218); entity ids are 1..MaxId.
NullNode == 0

Ids == 1 .. MaxId

\* The list generate_comprehensive_queries returns (main.py:54-131), cut down
\* from its several hundred search strings to two; a query is named by its
\* position in the list.
generate_comprehensive_queries == <<1, 2>>

NumQueries == Len(generate_comprehensive_queries)

NoResponse == [kind |-> "none"]

Min(a, b) == IF a < b THEN a ELSE b

Max(a, b) == IF a > b THEN a ELSE b

\* a faulty variant: s[:n + 1]
Take_one_more(s, n) == SubSeq(s, 1, Min(n + 1, Len(s)))

\* s[:n]
Take(s, n) == SubSeq(s, 1, Min(n, Len(s)))

\* s[i:i+n]  (i is 0-based)
Slice(s, i, n) == SubSeq(s, i + 1, Min(i + n, Len(s)))

IdsOf(s) == {s[i].github_id : i \in 1 .. Len(s)}

(***************************************************************************)
(* The server.  A query matches a run of consecutive nodes lo..hi of       *)
(* 0..MaxId (a star range, say); node 0 is a node without an id.  The      *)
(* fields of an entity are functions of its id.                            *)
(***************************************************************************)
RangeSeq(lo, hi) == [i \in 1 .. (hi - lo + 1) |-> lo + i - 1]

Ranges == {RangeSeq(lo, hi) : lo \in 0 .. MaxId, hi \in 0 .. MaxId}

nameWithOwner(id) == id

\* an Int of the response; id 1 carries a negative count to exercise max(0, .)
stargazerCount(id) == id - 2

\* What the server's rateLimit.remaining may say: below the margin, or plenty.
RemainingValues == {RateLimitMargin - 1, RateLimitDefault}

\* The reset time the server reports (rateLimit.resetAt), a timestamp.
ResetAtValue == 1

\* The Retry-After header of an HTTP 403 answer, in seconds: absent (None), or
\* a hint the server gives.
RetryAfterValues == {None, 60}

(***************************************************************************)
(* The sleeps of the paginator (asyncio.sleep), as the history variable    *)
(* wait records them: the kind of the sleep and its length in seconds.     *)
(* The 0.5 of main.py:240 is not an integer, so the two page delays are    *)
(* written as strings.                                                     *)
(***************************************************************************)
NoWait == [kind |-> "none"]

\* main.py:48-51
QuotaWait == [kind |-> "quota", seconds |-> RateLimitWait]

\* main.py:180-183: the sleep after HTTP 403, whatever the answer's
\* Retry-After says; hint records what it said
BackoffWait(hint) == [kind |-> "backoff", seconds |-> ThrottleWait, hint |-> hint]

\* main.py:240-241: delay = 0.5 if self.rate_limit_remaining > 1000 else 2.0
PageDelay(remaining) ==
    [kind |-> "page", seconds |-> IF remaining > 1000 THEN "0.5" ELSE "2.0"]

\* main.py:246-248
ErrorDelay == [kind |-> "error", seconds |-> ErrorWait]

(***************************************************************************)
(* Repository (main.py:18-22) as execute_graphql_query builds it from a    *)
(* node (main.py:224-228).                                                 *)
(***************************************************************************)
Repository(node) ==
    [github_id |-> node,
     name_with_owner |-> nameWithOwner(node),
     star_count |-> Max(0, stargazerCount(node))]

(***************************************************************************)
(* The search transport.  PageOf is the page the server holds for query q  *)
(* after cursor c: at most PageSize nodes (first: 100), the cursor of its  *)
(* end, and whether more nodes follow.                                     *)
(***************************************************************************)
PageNodes(q, c) == Slice(matches[q], c, PageSize)

MoreAfter(q, c) == c + PageSize < Len(matches[q])

\* Every answer the endpoint may give to the request (q, c).  An "ok" answer
\* is HTTP 200 with data; its hasNextPage is either the truth or, for a
\* transport that always reports more pages, TRUE.
Responses(q, c) ==
    {[kind |-> k] : k \in {"TimeoutError", "Exception", "httpError",
                           "gqlTimeout", "gqlError", "noData"}}
    \cup
    {[kind |-> "http403", retry_after |-> h] : h \in RetryAfterValues}
    \cup
    {[kind |-> "ok", nodes |-> PageNodes(q, c), hasNextPage |-> h,
      endCursor |-> c + PageSize, remaining |-> r, resetAt |-> ResetAtValue] :
        h \in {MoreAfter(q, c), TRUE}, r \in RemainingValues}

\* response kinds after which the code abandons the partition
FailureKinds == {"TimeoutError", "Exception", "httpError", "gqlTimeout",
                 "gqlError", "noData"}

(***************************************************************************)
(* The dedup of one page (main.py:216-229): the nodes of the page in       *)
(* order, each admitted when its id is not yet in the seen set.  No await  *)
(* stands between the membership test and the add, nor anywhere in the     *)
(* loop, so the whole loop is one step of the coroutine.                   *)
(* ProcessNodes returns [seen, repos]: the seen set and the list after the *)
(* loop.                                                                   *)
(***************************************************************************)
\* a faulty variant: no membership test
admit_unchecked(seen, repo_id) == TRUE

\* main.py:222: if repo_id not in self.seen_repos
admit(seen, repo_id) == repo_id \notin seen

RECURSIVE ProcessNodes(_, _, _)
ProcessNodes(nodes, seen, repos) ==
    IF nodes = <<>> THEN [seen |-> seen, repos |-> repos]
    ELSE LET node == Head(nodes) IN
         IF node = NullNode
         THEN ProcessNodes(Tail(nodes), seen, repos)
         ELSE IF admit(seen, node)
              THEN ProcessNodes(Tail(nodes), seen \cup {node},
                                Append(repos, Repository(node)))
              ELSE ProcessNodes(Tail(nodes), seen, repos)

(***************************************************************************)
(* check_rate_limit (main.py:46-52): the value of rate_limit_remaining     *)
(* after the call; when it is below the margin the coroutine sleeps 300 s  *)
(* and assumes the quota was reset.                                        *)
(***************************************************************************)
\* a faulty variant: the margin is not looked at
check_rate_limit_skipped(remaining) == remaining

check_rate_limit(remaining) ==
    IF remaining < RateLimitMargin THEN RateLimitDefault ELSE remaining

(***************************************************************************)
(* PostgreSQL.  A row of the table repositories (main.py:306-312).         *)
(***************************************************************************)
RowOf(id) == CHOOSE r \in table : r.github_id = id

\* a faulty variant: an INSERT without the ON CONFLICT clause, on a table
\* without UNIQUE
Upsert_insert_only(db, r, t) ==
    [rows |-> db.rows \cup
              {[id |-> db.id_seq, github_id |-> r.github_id,
                name_with_owner |-> r.name_with_owner,
                star_count |-> r.star_count, crawled_at |-> t]},
     id_seq |-> db.id_seq + 1]

\* One execution of the INSERT ... ON CONFLICT (github_id) DO UPDATE of
\* main.py:338-344 on the state db = [rows, id_seq], at time t.  The default
\* of the SERIAL column is evaluated before the conflict is detected, so the
\* sequence advances either way.
Upsert(db, r, t) ==
    IF \E row \in db.rows : row.github_id = r.github_id
    THEN LET old == CHOOSE row \in db.rows : row.github_id = r.github_id IN
         [rows |-> (db.rows \ {old}) \cup
                   {[old EXCEPT !.star_count = r.star_count, !.crawled_at = t]},
          id_seq |-> db.id_seq + 1]
    ELSE [rows |-> db.rows \cup
                   {[id |-> db.id_seq, github_id |-> r.github_id,
                     name_with_owner |-> r.name_with_owner,
                     star_count |-> r.star_count, crawled_at |-> t]},
          id_seq |-> db.id_seq + 1]

\* save_repositories_batch (main.py:333-350): executemany runs the statement
\* once per element, in order.
RECURSIVE save_repositories_batch(_, _, _)
save_repositories_batch(db, batch, t) ==
    IF batch = <<>> THEN db
    ELSE save_repositories_batch(Upsert(db, Head(batch), t), Tail(batch), t)

\* the last element of batch with the given id, per id (history)
RECURSIVE LatestAfter(_, _)
LatestAfter(l, batch) ==
    IF batch = <<>> THEN l
    ELSE LatestAfter([l EXCEPT ![Head(batch).github_id] = Head(batch)], Tail(batch))

(***************************************************************************)
(* The initial state: the crawler and the database objects as constructed  *)
(* (main.py:25-30, 289-291), main not yet started.  What each query        *)
(* matches on the server is an input of the run.                           *)
(***************************************************************************)
Constructed ==
    /\ seen_repos = {}
    /\ rate_limit_remaining = RateLimitDefault
    /\ rate_limit_reset_at = None
    /\ queries = <<>>
    /\ query_idx = 0
    /\ all_repositories = <<>>
    /\ final_repos = <<>>
    /\ repositories = <<>>
    /\ cursor = None
    /\ pages_fetched = 0
    /\ response = NoResponse
    /\ save_i = 0
    /\ table = {}
    /\ id_seq = 1
    /\ now = 0
    /\ attempts = 0
    /\ ended = "none"
    /\ failed = FALSE
    /\ written = {}
    /\ backoff_waits = 0
    /\ wait = NoWait
    /\ in_flight = {}
    /\ saved_batches = <<>>

Init ==
    /\ pc = "main"
    /\ Constructed
    /\ matches \in [1 .. NumQueries -> Ranges]
    /\ latest = [id \in Ids |-> None]
    /\ stars = 0
    /\ covering = {}

(***************************************************************************)
(* main (main.py:385-435) up to the crawl.                                 *)
(***************************************************************************)
\* main.py:398-400, 301-331: DROP TABLE, CREATE TABLE: an empty table whose
\* SERIAL sequence starts at 1
setup_tables ==
    /\ pc = "main"
    /\ table' = {}
    /\ id_seq' = 1
    /\ pc' = "crawl"
    /\ UNCHANGED <<crawlerVars, envVars, save_i, now, written, latest, saved_batches>>

(***************************************************************************)
(* crawl_100k_repositories (main.py:253-286).                              *)
(***************************************************************************)

\* every order random.shuffle can leave the list in
Shuffles(s) ==
    {[i \in 1 .. Len(s) |-> s[f[i]]] : f \in Permutations(1 .. Len(s))}

\* main.py:255-259
CrawlStart ==
    /\ pc = "crawl"
    /\ all_repositories' = <<>>
    /\ queries' \in Shuffles(generate_comprehensive_queries)
    /\ query_idx' = 0
    /\ pc' = "for"
    /\ UNCHANGED <<seen_repos, rate_limit_remaining, rate_limit_reset_at,
                   final_repos, repositories, cursor, pages_fetched, response,
                   attempts, ended, failed, backoff_waits, wait, in_flight,
                   envVars, save_i, dbVars>>

\* a faulty variant: > instead of >=
TargetReached_strict == Len(all_repositories) > TargetCount

\* main.py:265: the stop condition checked before each query
TargetReached == Len(all_repositories) >= TargetCount

\* main.py:264-271, 159-162: the next query is dispatched to the paginator
Dispatch ==
    /\ pc = "for"
    /\ query_idx < Len(queries)
    /\ ~TargetReached
    /\ repositories' = <<>>
    /\ cursor' = None
    /\ pages_fetched' = 0
    /\ attempts' = 0
    /\ ended' = "none"
    /\ backoff_waits' = 0
    /\ wait' = NoWait
    /\ in_flight' = in_flight \cup {queries[query_idx + 1]}
    /\ pc' = "while"
    /\ UNCHANGED <<seen_repos, rate_limit_remaining, rate_limit_reset_at, queries,
                   query_idx, all_repositories, final_repos, response, failed,
                   envVars, save_i, dbVars>>

\* a faulty variant: the target is also looked at while a paginator runs, and
\* the run is dropped when it is reached
CrawlReturn_eager ==
    /\ \/ pc = "for" /\ (query_idx >= Len(queries) \/ TargetReached)
       \/ pc = "while" /\ Len(all_repositories) + Len(repositories) >= TargetCount
    /\ final_repos' = Take(all_repositories, TargetCount)
    /\ pc' = "crawled"
    /\ UNCHANGED <<seen_repos, rate_limit_remaining, rate_limit_reset_at, queries,
                   query_idx, all_repositories, repositories, cursor,
                   pages_fetched, response, attempts, ended, failed,
                   backoff_waits, wait, in_flight, envVars, save_i, dbVars>>

\* main.py:264-266, 284-286: the loop ends (list exhausted, or break) and
\* the result is cut to the target
CrawlReturn ==
    /\ pc = "for"
    /\ (query_idx >= Len(queries) \/ TargetReached)
    /\ final_repos' = Take(all_repositories, TargetCount)
    /\ pc' = "crawled"
    /\ UNCHANGED <<seen_repos, rate_limit_remaining, rate_limit_reset_at, queries,
                   query_idx, all_repositories, repositories, cursor,
                   pages_fetched, response, attempts, ended, failed,
                   backoff_waits, wait, in_flight, envVars, save_i, dbVars>>

\* main.py:271-272, 251: the paginator returns, its list is appended and the
\* for loop moves on
Return ==
    /\ pc = "return"
    /\ all_repositories' = all_repositories \o repositories
    /\ query_idx' = query_idx + 1
    /\ in_flight' = in_flight \ {queries[query_idx + 1]}
    /\ pc' = "for"
    /\ UNCHANGED <<seen_repos, rate_limit_remaining, rate_limit_reset_at, queries,
                   final_repos, repositories, cursor, pages_fetched, response,
                   attempts, ended, failed, backoff_waits, wait, envVars, save_i,
                   dbVars>>

(***************************************************************************)
(* execute_graphql_query (main.py:133-251).                                *)
(***************************************************************************)
pagVars == <<queries, query_idx, all_repositories, final_repos, in_flight,
             envVars, save_i, dbVars>>

\* the query the paginator is running
search_query == queries[query_idx + 1]

\* a faulty variant: <= instead of <
PagesLeft_inclusive == pages_fetched <= max_pages

\* main.py:164: while pages_fetched < max_pages
PagesLeft == pages_fetched < max_pages

\* main.py:164: the loop condition fails
WhileExit ==
    /\ pc = "while"
    /\ ~PagesLeft
    /\ ended' = "cap"
    /\ pc' = "return"
    /\ UNCHANGED <<seen_repos, rate_limit_remaining, rate_limit_reset_at,
                   repositories, cursor, pages_fetched, response, attempts,
                   failed, backoff_waits, wait, pagVars>>

\* main.py:164-165: the loop is entered and check_rate_limit awaited
CheckRateLimit ==
    /\ pc = "while"
    /\ PagesLeft
    /\ rate_limit_remaining' = check_rate_limit(rate_limit_remaining)
    /\ wait' = IF rate_limit_remaining < RateLimitMargin THEN QuotaWait ELSE NoWait
    /\ pc' = "post"
    /\ UNCHANGED <<seen_repos, rate_limit_reset_at, repositories, cursor,
                   pages_fetched, response, attempts, ended, failed,
                   backoff_waits, pagVars>>

\* main.py:168-177: the request is sent with the current cursor and the
\* endpoint answers
Post ==
    /\ pc = "post"
    /\ response' \in Responses(search_query, cursor)
    /\ attempts' = Min(attempts + 1, MaxTracked)
    /\ wait' = NoWait
    /\ pc' = "response"
    /\ UNCHANGED <<seen_repos, rate_limit_remaining, rate_limit_reset_at,
                   repositories, cursor, pages_fetched, ended, failed,
                   backoff_waits, pagVars>>

\* a faulty variant: the throttled request is counted as a fetched page
RateLimited_counts_page ==
    /\ pc = "response"
    /\ response.kind = "http403"
    /\ wait' = BackoffWait(response.retry_after)
    /\ backoff_waits' = Min(backoff_waits + 1, MaxTracked - 1)
    /\ pages_fetched' = pages_fetched + 1
    /\ response' = NoResponse
    /\ pc' = "while"
    /\ UNCHANGED <<seen_repos, rate_limit_remaining, rate_limit_reset_at,
                   repositories, cursor, attempts, ended, failed, pagVars>>

\* main.py:180-183: HTTP 403: sleep 300 s, continue (same cursor, same page count)
RateLimited ==
    /\ pc = "response"
    /\ response.kind = "http403"
    /\ wait' = BackoffWait(response.retry_after)
    /\ backoff_waits' = Min(backoff_waits + 1, MaxTracked - 1)
    /\ response' = NoResponse
    /\ pc' = "while"
    /\ UNCHANGED <<seen_repos, rate_limit_remaining, rate_limit_reset_at,
                   repositories, cursor, pages_fetched, attempts, ended, failed,
                   pagVars>>

\* a faulty variant: the failure is raised to main instead of ending the loop
Abandon_raises ==
    /\ pc = "response"
    /\ response.kind \in FailureKinds
    /\ response' = NoResponse
    /\ ended' = response.kind
    /\ failed' = TRUE
    /\ wait' = IF response.kind = "Exception" THEN ErrorDelay ELSE NoWait
    /\ pc' = "exit1"
    /\ UNCHANGED <<seen_repos, rate_limit_remaining, rate_limit_reset_at,
                   repositories, cursor, pages_fetched, attempts, backoff_waits,
                   pagVars>>

\* a faulty variant: a failed run returns an empty list
Abandon_discards ==
    /\ pc = "response"
    /\ response.kind \in FailureKinds
    /\ response' = NoResponse
    /\ repositories' = <<>>
    /\ ended' = response.kind
    /\ failed' = TRUE
    /\ wait' = IF response.kind = "Exception" THEN ErrorDelay ELSE NoWait
    /\ pc' = "return"
    /\ UNCHANGED <<seen_repos, rate_limit_remaining, rate_limit_reset_at,
                   cursor, pages_fetched, attempts, backoff_waits, pagVars>>

\* main.py:185-187, 192-199, 201-203, 243-249: every other failure: break
\* (after a sleep of 5 s when it is an exception other than a timeout)
Abandon ==
    /\ pc = "response"
    /\ response.kind \in FailureKinds
    /\ response' = NoResponse
    /\ ended' = response.kind
    /\ failed' = TRUE
    /\ wait' = IF response.kind = "Exception" THEN ErrorDelay ELSE NoWait
    /\ pc' = "return"
    /\ UNCHANGED <<seen_repos, rate_limit_remaining, rate_limit_reset_at,
                   repositories, cursor, pages_fetched, attempts, backoff_waits,
                   pagVars>>

\* main.py:205-213: a page without nodes: the quota is recorded, then break
EmptyPage ==
    /\ pc = "response"
    /\ response.kind = "ok"
    /\ response.nodes = <<>>
    /\ rate_limit_remaining' = response.remaining
    /\ response' = NoResponse
    /\ ended' = "empty"
    /\ pc' = "return"
    /\ UNCHANGED <<seen_repos, rate_limit_reset_at, repositories, cursor,
                   pages_fetched, attempts, failed, backoff_waits, wait, pagVars>>

\* a faulty variant: the cursor of the request is kept
NextCursor_same(resp) == cursor

\* main.py:237: cursor = page_info.get("endCursor")
NextCursor(resp) == resp.endCursor

\* main.py:205-241: a page with nodes: the quota is recorded, the nodes are
\* deduplicated, the page counted; then break when no page follows, else the
\* cursor advances and the loop goes round
Page ==
    /\ pc = "response"
    /\ response.kind = "ok"
    /\ response.nodes # <<>>
    /\ rate_limit_remaining' = response.remaining
    /\ LET p == ProcessNodes(response.nodes, seen_repos, repositories) IN
         /\ seen_repos' = p.seen
         /\ repositories' = p.repos
    /\ pages_fetched' = pages_fetched + 1
    /\ response' = NoResponse
    /\ IF ~response.hasNextPage
       THEN /\ ended' = "exhausted"
            /\ pc' = "return"
            /\ UNCHANGED <<cursor, attempts, backoff_waits, wait>>
       ELSE /\ cursor' = NextCursor(response)
            /\ attempts' = 0
            /\ backoff_waits' = 0
            /\ wait' = PageDelay(response.remaining)
            /\ pc' = "while"
            /\ UNCHANGED ended
    /\ UNCHANGED <<rate_limit_reset_at, failed, pagVars>>

(***************************************************************************)
(* main after the crawl (main.py:403-429).                                 *)
(***************************************************************************)
\* main.py:405-407: nothing collected: sys.exit(1)
NothingCollected ==
    /\ pc = "crawled"
    /\ final_repos = <<>>
    /\ pc' = "exit1"
    /\ UNCHANGED <<crawlerVars, envVars, save_i, dbVars>>

\* main.py:409-413: the save loop starts at i = 0
SaveStart ==
    /\ pc = "crawled"
    /\ final_repos # <<>>
    /\ save_i' = 0
    /\ pc' = "save"
    /\ UNCHANGED <<crawlerVars, envVars, dbVars>>

\* The effect of one call of save_repositories_batch on the database and on
\* the history of writes.
Saved(batch) ==
    /\ now' = now + 1
    /\ LET db == save_repositories_batch([rows |-> table, id_seq |-> id_seq],
                                         batch, now + 1) IN
         /\ table' = db.rows
         /\ id_seq' = db.id_seq
    /\ written' = written \cup IdsOf(batch)
    /\ latest' = LatestAfter(latest, batch)

\* a faulty variant: repositories[i:i + batch_size - 1]
SaveBatch_short ==
    /\ pc = "save"
    /\ save_i < Len(final_repos)
    /\ Saved(Slice(final_repos, save_i, batch_size - 1))
    /\ saved_batches' = Append(saved_batches, Slice(final_repos, save_i, batch_size - 1))
    /\ save_i' = save_i + batch_size
    /\ UNCHANGED <<pc, crawlerVars, envVars>>

\* main.py:413-416: one turn of the save loop
SaveBatch ==
    /\ pc = "save"
    /\ save_i < Len(final_repos)
    /\ Saved(Slice(final_repos, save_i, batch_size))
    /\ saved_batches' = Append(saved_batches, Slice(final_repos, save_i, batch_size))
    /\ save_i' = save_i + batch_size
    /\ UNCHANGED <<pc, crawlerVars, envVars>>

\* main.py:415, 431-435: the call raises: main's handler prints and exits
SaveFails ==
    /\ pc = "save"
    /\ save_i < Len(final_repos)
    /\ pc' = "exit1"
    /\ UNCHANGED <<crawlerVars, envVars, save_i, dbVars>>

\* main.py:413, 418-429: the loop is over, the statistics are printed
Finish ==
    /\ pc = "save"
    /\ save_i >= Len(final_repos)
    /\ pc' = "done"
    /\ UNCHANGED <<crawlerVars, envVars, save_i, dbVars>>

Next ==
    \/ setup_tables
    \/ CrawlStart
    \/ Dispatch
    \/ CrawlReturn
    \/ Return
    \/ WhileExit
    \/ CheckRateLimit
    \/ Post
    \/ RateLimited
    \/ Abandon
    \/ EmptyPage
    \/ Page
    \/ NothingCollected
    \/ SaveStart
    \/ SaveBatch
    \/ SaveFails
    \/ Finish

Spec == Init /\ [][Next]_vars

\* The event loop keeps running the coroutine: a step that can be taken is
\* taken.  Nothing is assumed of what the endpoint answers.
FairSpec == Spec /\ WF_vars(Next)

(***************************************************************************)
(* DatabaseSpec: Database on its own.  After setup_tables, any sequence of *)
(* at most MaxCalls calls of save_repositories_batch, each with any batch  *)
(* of at most MaxBatch repositories: batches may repeat and overlap, and   *)
(* the same id may come with different names and star counts.              *)
(***************************************************************************)
DbRepos ==
    {[github_id |-> id, name_with_owner |-> f[1], star_count |-> f[2]] :
        id \in {1, 2}, f \in {<<1, 0>>, <<1, 1>>, <<2, 0>>}}

Batches ==
    UNION {[1 .. n -> DbRepos] : n \in 0 .. MaxBatch}

InitDb ==
    /\ pc = "db"
    /\ Constructed
    /\ matches = [q \in 1 .. NumQueries |-> <<>>]
    /\ latest = [id \in Ids |-> None]
    /\ stars = 0
    /\ covering = {}

\* main.py:333-350: a call with a batch; an empty batch returns at once
\* (main.py:335-336)
DbSave ==
    /\ pc = "db"
    /\ now < MaxCalls
    /\ \E batch \in Batches : Saved(batch)
    /\ UNCHANGED <<pc, crawlerVars, envVars, save_i, saved_batches>>

NextDb == DbSave

DatabaseSpec == InitDb /\ [][NextDb]_vars

(***************************************************************************)
(* PartitionSpec: the star bands of generate_comprehensive_queries         *)
(* (main.py:58-71) on their own.  Each element of star_ranges becomes the  *)
(* query "stars:<element>"; in GitHub's search syntax n..m matches the     *)
(* counts from n to m, both included, >=n the counts from n up, and a      *)
(* plain n the count n.  A band is the interval its string denotes.        *)
(***************************************************************************)
\* a faulty variant: n..m read as a half-open range
Between_half_open(n, m) == [lo |-> n, bounded |-> TRUE, hi |-> m - 1]

\* "n..m"
Between(n, m) == [lo |-> n, bounded |-> TRUE, hi |-> m]

\* ">=n"
AtLeast(n) == [lo |-> n, bounded |-> FALSE, hi |-> n]

\* "n"
Exactly(n) == [lo |-> n, bounded |-> TRUE, hi |-> n]

\* main.py:59-68
star_ranges ==
    << AtLeast(100000), Between(50000, 99999), Between(25000, 49999),
       Between(10000, 24999), Between(5000, 9999), Between(2500, 4999),
       Between(1500, 2499), Between(1000, 1499), Between(800, 999),
       Between(600, 799), Between(500, 599), Between(400, 499),
       Between(350, 399), Between(300, 349), Between(250, 299),
       Between(200, 249), Between(175, 199), Between(150, 174),
       Between(125, 149), Between(100, 124), Between(90, 99), Between(80, 89),
       Between(70, 79), Between(60, 69), Between(50, 59), Between(45, 49),
       Between(40, 44), Between(35, 39), Between(30, 34), Between(25, 29),
       Between(22, 24), Between(20, 21), Between(18, 19), Between(16, 17),
       Between(14, 15), Between(12, 13), Between(10, 11), Between(8, 9),
       Between(6, 7), Between(4, 5), Exactly(3), Exactly(2), Exactly(1) >>

\* a repository with n stars satisfies the predicate stars:<band>
InBand(n, band) == band.lo <= n /\ (band.bounded => n <= band.hi)

InitPartition ==
    /\ pc = "partition"
    /\ Constructed
    /\ matches = [q \in 1 .. NumQueries |-> <<>>]
    /\ latest = [id \in Ids |-> None]
    /\ stars \in 1 .. MaxStars
    /\ covering = {}

\* the positions in star_ranges of the bands the star count falls in
Classify ==
    /\ pc = "partition"
    /\ covering' = {i \in 1 .. Len(star_ranges) : InBand(stars, star_ranges[i])}
    /\ pc' = "classified"
    /\ UNCHANGED <<crawlerVars, matches, stars, save_i, dbVars>>

NextPartition == Classify

PartitionSpec == InitPartition /\ [][NextPartition]_vars

(***************************************************************************)
(* Vocabulary of the properties.                                           *)
(***************************************************************************)
\* a paginator run is in progress (dispatched and not yet appended)
InPaginator == pc \in {"while", "post", "response", "return"}

\* crawl_100k_repositories has returned
CrawlReturned == pc \in {"crawled", "save", "done", "exit1"}

\* every entity counted so far: the accumulated list and, during a paginator
\* run, the list that run has collected
Accumulated ==
    IF InPaginator THEN all_repositories \o repositories ELSE all_repositories

DistinctIds(s) ==
    \A i, j \in 1 .. Len(s) : i # j => s[i].github_id # s[j].github_id

\* main.py:264-271: the for loop awaits each execute_graphql_query before it
\* goes on, so the crawler runs one paginator at a time
max_concurrency == 1

\* per_partition_cap: max_pages pages of PageSize entities
per_partition_cap == max_pages * PageSize

\* the ids a query can surface: those of the first per_partition_cap nodes it
\* matches (the window of the search API)
ReachableBy(q) ==
    {matches[q][i] : i \in 1 .. Min(per_partition_cap, Len(matches[q]))} \ {NullNode}

Reachable == UNION {ReachableBy(q) : q \in 1 .. NumQueries}

C2_CapRespect == Len(repositories) <= per_partition_cap

\* A run returns exactly per_partition_cap entities of a query that matches
\* more: the loop ended on the page count, not on what the endpoint said.
C2_Witness ==
    /\ pc = "return"
    /\ ended = "cap"
    /\ Len(repositories) = per_partition_cap
    /\ Len(matches[search_query]) > per_partition_cap

C4_StopAndTruncate ==
    /\ InPaginator => Len(all_repositories) < TargetCount
    /\ (pc \in {"for", "crawled"} /\ query_idx > 0) =>
           Len(all_repositories) - Len(repositories) < TargetCount
    /\ CrawlReturned =>
           /\ Len(final_repos) = Min(TargetCount, Len(all_repositories))
           /\ \A i \in 1 .. Len(final_repos) : final_repos[i] = all_repositories[i]

\* The first query overshoots the target, the second is never dispatched and
\* the result is cut to TargetCount.
C4_Witness ==
    /\ pc = "crawled"
    /\ query_idx = 1
    /\ query_idx < Len(queries)
    /\ Len(all_repositories) > TargetCount
    /\ Len(final_repos) = TargetCount

(***************************************************************************)
(* C5  Bounded throttle retries, as claimed: one page request is retried   *)
(* at most max_attempts times after a 403.  The code names no              *)
(* max_attempts; the statement is taken for the largest value the request  *)
(* counter of the model can refute, MaxTracked - 2 retries, so that its    *)
(* failure refutes the claim for that and every smaller max_attempts.      *)
(* attempts counts the requests sent for the current page; all but the     *)
(* first are retries, and a 403 is the only answer the code retries.       *)
(***************************************************************************)
max_attempts == MaxTracked - 2

C5_BoundedThrottleRetries == attempts - 1 <= max_attempts

(***************************************************************************)
(* C6  Crawl termination, as claimed: in every run the crawl eventually    *)
(* returns (and with it every paginator run), whatever the endpoint        *)
(* answers.  Checked under FairSpec.                                       *)
(***************************************************************************)
C6_CrawlTerminates == <>CrawlReturned

(***************************************************************************)
(* C7  Transient failure retry, as claimed: a partition is abandoned on a  *)
(* transient failure (timeout, network error, HTTP status other than 200   *)
(* and 403, GraphQL timeout) only after the page was retried, that is      *)
(* after more than one request was sent for it.  This much follows from    *)
(* the claim for every max_retry_attempts >= 1.                            *)
(***************************************************************************)
TransientKinds == {"TimeoutError", "Exception", "httpError", "gqlTimeout"}

C7_TransientRetried ==
    (pc = "return" /\ ended \in TransientKinds) => attempts > 1

(***************************************************************************)
(* C8  Rejected-query isolation.  The step that handles a GraphQL error    *)
(* ends the paginator run with the list it had collected, and touches      *)
(* neither the seen set nor the accumulated list; once a run has ended on  *)
(* a GraphQL error no request is sent for that query any more; the         *)
(* returned list is appended to the unchanged accumulated list and the     *)
(* scheduler moves on to the next query; and the crawl returns only when   *)
(* the target is reached or every query was dispatched, never because a    *)
(* query failed.                                                           *)
(***************************************************************************)
C8_RejectedHandled ==
    (pc = "response" /\ response.kind = "gqlError") =>
        /\ pc' = "return"
        /\ ended' = "gqlError"
        /\ repositories' = repositories
        /\ seen_repos' = seen_repos
        /\ all_repositories' = all_repositories
        /\ query_idx' = query_idx

C8_ReturnedAppended ==
    (pc = "return" /\ ended = "gqlError") =>
        /\ pc' = "for"
        /\ all_repositories' = all_repositories \o repositories
        /\ query_idx' = query_idx + 1
        /\ queries' = queries

C8_RejectedIsolation ==
    /\ [](ended = "gqlError" => pc \notin {"while", "post", "response"})
    /\ [](CrawlReturned => (TargetReached \/ query_idx = Len(queries)))
    /\ [](pc \in {"for", "crawled"} /\ ended = "gqlError" /\ query_idx < Len(queries)
              /\ ~TargetReached => ENABLED Dispatch)
    /\ [][C8_RejectedHandled]_vars
    /\ [][C8_ReturnedAppended]_vars

\* The first query ended on a GraphQL error at its second page; the entities
\* of its first page are accumulated and the second query is next.
C8_Witness ==
    /\ pc = "for"
    /\ query_idx = 1
    /\ ended = "gqlError"
    /\ pages_fetched = 1
    /\ Len(all_repositories) >= 1
    /\ all_repositories = repositories
    /\ ~TargetReached
    /\ query_idx < Len(queries)

(***************************************************************************)
(* The entity a row stores: its key and its mutable fields.                *)
(***************************************************************************)
Stored(rows) ==
    {[github_id |-> r.github_id, name_with_owner |-> r.name_with_owner,
      star_count |-> r.star_count] : r \in rows}

RowsAfter(rows, seq, batch, t) ==
    save_repositories_batch([rows |-> rows, id_seq |-> seq], batch, t)

(***************************************************************************)
(* C9  Upsert never duplicates rows.  After any sequence of calls of       *)
(* save_repositories_batch the table holds exactly one row per id ever     *)
(* written, no two rows share a primary key, and saving any batch a second *)
(* time leaves the same entities stored as saving it once.  Checked under  *)
(* DatabaseSpec.                                                           *)
(***************************************************************************)
C9_OneRowPerId ==
    /\ \A r1, r2 \in table : r1.github_id = r2.github_id => r1 = r2
    /\ \A r1, r2 \in table : r1.id = r2.id => r1 = r2
    /\ {r.github_id : r \in table} = written
    /\ Cardinality(table) = Cardinality(written)
    /\ \A batch \in Batches :
          LET once == RowsAfter(table, id_seq, batch, now + 1)
              twice == RowsAfter(once.rows, once.id_seq, batch, now + 2)
          IN /\ Stored(twice.rows) = Stored(once.rows)
             /\ Cardinality(twice.rows) = Cardinality(once.rows)

\* The statement ran four times, for two ids only: each id was written
\* twice, and two rows are stored.
C9_Witness ==
    /\ pc = "db"
    /\ id_seq = 5
    /\ Cardinality(written) = 2
    /\ Cardinality(table) = 2

(***************************************************************************)
(* C10  Upsert keeps the latest mutable values, as claimed: for every id   *)
(* written, the stored name_with_owner and star_count are those of the     *)
(* most recent write for that id.  Checked under DatabaseSpec.             *)
(***************************************************************************)
C10_LatestValues ==
    \A id \in written :
        /\ RowOf(id).name_with_owner = latest[id].name_with_owner
        /\ RowOf(id).star_count = latest[id].star_count

(***************************************************************************)
(* C11  Persistence failure isolation, as claimed: a batch whose upsert    *)
(* fails never aborts the run and never keeps the other batches from       *)
(* being persisted.  Stated on the state the run is in after a call of     *)
(* save_repositories_batch has raised: the run is not at its error exit    *)
(* with entities of other batches of the result unwritten.                 *)
(***************************************************************************)
FailedBatch == Slice(final_repos, save_i, batch_size)

C11_FailureIsolated ==
    (pc = "exit1" /\ final_repos # <<>>) =>
        IdsOf(final_repos) \ IdsOf(FailedBatch) \subseteq written

(***************************************************************************)
(* C12  Throttle-then-succeed is transparent.  Each HTTP 403 answer is     *)
(* followed by one backoff sleep and leaves the cursor, the page count,    *)
(* the collected list and the seen set as they were, so the page is asked  *)
(* for again with the same cursor and the answer that succeeds is handled  *)
(* from the state the first attempt would have been handled from.  When    *)
(* the k-th retry of a page is answered, exactly k backoff sleeps have     *)
(* been made for it (attempts counts the requests of the page), and no     *)
(* other sleep stands between a 403 and the retry.                         *)
(***************************************************************************)
Throttled == pc = "response" /\ response.kind = "http403"

C12_ThrottleTransparent ==
    /\ [](pc = "response" => backoff_waits = attempts - 1)
    /\ []((pc = "post" /\ attempts > 0) => wait = NoWait)
    /\ []((pc = "response" /\ response.kind = "ok") =>
              response.nodes = PageNodes(search_query, cursor))
    /\ [][Throttled =>
              /\ pc' = "while"
              /\ PagesLeft'
              /\ wait'.kind = "backoff"
              /\ cursor' = cursor
              /\ pages_fetched' = pages_fetched
              /\ repositories' = repositories
              /\ seen_repos' = seen_repos
              /\ all_repositories' = all_repositories
              /\ query_idx' = query_idx]_vars

\* The first page of a query was throttled twice and then answered: the run
\* has returned the whole page after three requests and two backoff sleeps.
C12_Witness ==
    /\ pc = "return"
    /\ ended = "exhausted"
    /\ pages_fetched = 1
    /\ attempts = 3
    /\ backoff_waits = 2
    /\ Len(repositories) = PageSize

(***************************************************************************)
(* C13  Retry hint override, as claimed: when the HTTP 403 answer carries  *)
(* a Retry-After hint, the sleep made before the retry lasts exactly as    *)
(* long as the hint says.                                                  *)
(***************************************************************************)
C13_RetryHintHonoured ==
    (wait.kind = "backoff" /\ wait.hint # None) => wait.seconds = wait.hint

(***************************************************************************)
(* C14  Sequential pagination to exhaustion.  The first request of a run   *)
(* carries no cursor and each later one the endCursor of the answer        *)
(* before it; while a run lasts, its list is the entities, in page order,  *)
(* of the nodes of the pages fetched so far that were not seen before the  *)
(* run; an answer with nodes and hasNextPage is followed by the next       *)
(* request as long as the cap allows; and a run that ends without a failed *)
(* request ends because the last answer had hasNextPage = false, or no     *)
(* nodes, or because max_pages pages were fetched.                         *)
(***************************************************************************)
\* the nodes of the first n pages of query q, in page order
PagesOf(q, n) == Take(matches[q], n * PageSize)

\* the entities of the nodes that have an id not in before, in order
NotYetSeen(nodes, before) ==
    LET new(n) == n # NullNode /\ n \notin before
        kept == SelectSeq(nodes, new)
    IN [i \in 1 .. Len(kept) |-> Repository(kept[i])]

C14_SequentialPagination ==
    /\ [](InPaginator =>
            repositories = NotYetSeen(PagesOf(search_query, pages_fetched),
                                      IdsOf(all_repositories)))
    /\ [](pc \in {"while", "post", "response"} =>
            cursor = IF pages_fetched = 0 THEN None ELSE pages_fetched * PageSize)
    /\ [](pc = "return" =>
            /\ ended = "cap" => pages_fetched = max_pages
            /\ ended = "exhausted" => ~MoreAfter(search_query, cursor)
            /\ ended = "empty" => PageNodes(search_query, cursor) = <<>>)
    /\ [][cursor' # cursor =>
              \/ pc = "for" /\ cursor' = None
              \/ pc = "response" /\ response.kind = "ok"
                                 /\ cursor' = response.endCursor]_vars
    /\ [][(pc = "response" /\ response.kind = "ok" /\ response.nodes # <<>>
              /\ response.hasNextPage) =>
                 (pc' = "while" /\ cursor' = response.endCursor)]_vars
    /\ [][(pc = "while" /\ pages_fetched < max_pages) => pc' = "post"]_vars

\* Two full pages, the second with hasNextPage = false, each answered at the
\* first request: the run returns 2 * PageSize entities.
C14_Witness ==
    /\ pc = "return"
    /\ ended = "exhausted"
    /\ ~failed
    /\ attempts = 1
    /\ pages_fetched = 2
    /\ Len(repositories) = 2 * PageSize

(***************************************************************************)
(* C15  Partition coverage without gap.  Every star count >= 1 satisfies   *)
(* the predicate of at least one band of star_ranges.  Checked under       *)
(* PartitionSpec for the counts 1..MaxStars; every count from 100000 up    *)
(* falls in the band >=100000, which has no upper end.                     *)
(***************************************************************************)
C15_BandsCover ==
    pc = "classified" => covering # {}

\* 50000 stars: the count falls in the second band, 50000..99999.
C15_Witness ==
    /\ pc = "classified"
    /\ stars = 50000
    /\ covering = {2}

(***************************************************************************)
(* C16  Quota check before every request.  A request is sent only from     *)
(* the position check_rate_limit leaves the coroutine in, that position is *)
(* reached only through check_rate_limit, called at the head of the loop   *)
(* after the answer to the request before was handled (a 403 included);    *)
(* when the tracked quota is below the margin there, the call sleeps; and  *)
(* no request is sent while the tracked quota is below the margin.         *)
(***************************************************************************)
C16_QuotaCheckedBeforeRequest ==
    /\ [](pc = "post" => rate_limit_remaining >= RateLimitMargin)
    /\ [][pc' = "response" => pc = "post"]_vars
    /\ [][pc' = "post" =>
              /\ pc = "while"
              /\ response = NoResponse
              /\ rate_limit_remaining < RateLimitMargin => wait' = QuotaWait
              /\ rate_limit_remaining >= RateLimitMargin =>
                     (wait' = NoWait /\ UNCHANGED rate_limit_remaining)]_vars

\* The answer to the first page left the tracked quota below the margin:
\* the request of the second page is about to be sent, after the sleep.
C16_Witness ==
    /\ pc = "post"
    /\ pages_fetched = 1
    /\ wait = QuotaWait
    /\ rate_limit_remaining = RateLimitDefault

(***************************************************************************)
(* C17  Quota snapshot tracking, as claimed: the step that handles an      *)
(* "ok" answer leaves both rate_limit_remaining and rate_limit_reset_at    *)
(* equal to the rateLimit values of that answer.                           *)
(***************************************************************************)
C17_SnapshotTracked ==
    [][(pc = "response" /\ response.kind = "ok") =>
          /\ rate_limit_remaining' = response.remaining
          /\ rate_limit_reset_at' = response.resetAt]_vars

(***************************************************************************)
(* C18  Bounded concurrency with batch barrier.  At most max_concurrency   *)
(* queries are dispatched and not yet returned; a query is dispatched, and *)
(* the crawl ends, only when none is in flight, so the stop condition is   *)
(* looked at between paginator runs only; and a query leaves flight only   *)
(* by its run returning and its list being appended, however many          *)
(* entities have been collected by then.                                   *)
(***************************************************************************)
C18_BoundedConcurrency ==
    /\ [](Cardinality(in_flight) <= max_concurrency)
    /\ [](in_flight = IF InPaginator THEN {search_query} ELSE {})
    /\ [][(in_flight' # in_flight /\ in_flight' # {}) =>
              (in_flight = {} /\ ~TargetReached)]_vars
    /\ [][(pc' = "crawled" /\ pc # "crawled") =>
              (in_flight = {} /\ pc = "for"
                 /\ (TargetReached \/ query_idx >= Len(queries)))]_vars
    /\ [][(in_flight # {} /\ in_flight' # in_flight) =>
              /\ pc = "return"
              /\ in_flight' = {}
              /\ all_repositories' = all_repositories \o repositories]_vars

\* A paginator run has passed the target with pages left to fetch: it goes
\* on.
C18_Witness ==
    /\ pc = "while"
    /\ PagesLeft
    /\ in_flight = {search_query}
    /\ Len(all_repositories) + Len(repositories) >= TargetCount

(***************************************************************************)
(* OvershootSpec: the same run on a server with enough entities for the    *)
(* accumulated list to pass the target by a whole partition: the ids       *)
(* 1..WideId, each query matching a prefix or a suffix of them.            *)
(***************************************************************************)
WideId == TargetCount + per_partition_cap

WideRanges ==
    {RangeSeq(1, hi) : hi \in 0 .. WideId} \cup {RangeSeq(lo, WideId) : lo \in 1 .. WideId}

InitOvershoot ==
    /\ pc = "main"
    /\ Constructed
    /\ matches \in [1 .. NumQueries -> WideRanges]
    /\ latest = [id \in 1 .. WideId |-> None]
    /\ stars = 0
    /\ covering = {}

OvershootSpec == InitOvershoot /\ [][Next]_vars

(***************************************************************************)
(* C19  Bounded overshoot.  The accumulated list, and with it the list of  *)
(* the paginator run in progress, always holds fewer than                  *)
(* TargetCount + per_partition_cap entities.  Checked under OvershootSpec. *)
(***************************************************************************)
C19_BoundedOvershoot ==
    /\ Len(all_repositories) < TargetCount + per_partition_cap
    /\ Len(Accumulated) < TargetCount + per_partition_cap

\* The bound is met: one entity short of the target, then a partition that
\* returns per_partition_cap new entities.
C19_Witness ==
    /\ pc = "for"
    /\ Len(all_repositories) = TargetCount - 1 + per_partition_cap

RECURSIVE Concat(_)
Concat(ss) == IF ss = <<>> THEN <<>> ELSE Head(ss) \o Concat(Tail(ss))

====
